---- MODULE Spec2Model ----
(***************************************************************************)
(* Model of packages/anoncreds/src/utils/w3cAnonCredsUtils.ts: derivation  *)
(* of the AnonCreds tag set of a W3C credential record, extraction of the  *)
(* tags from a stored record, projection of either stored representation   *)
(* to AnonCredsCredentialInfo, and store-time identifier normalisation.    *)
(*                                                                         *)
(* JavaScript strings are TLA+ strings.  A value whose TypeScript type     *)
(* admits undefined, null, boolean or number is a tagged record            *)
(* [kind, repr]; an object is a function from its keys to its values, so   *)
(* that "key present with value undefined" and "key absent" differ.        *)
(* A call's outcome is Ok(value) or Throw(error).                          *)
(***************************************************************************)
EXTENDS Integers, Sequences, FiniteSets, TLC

VARIABLES op, args, ret, stored

vars == <<op, args, ret, stored>>

----------------------------------------------------------------------------
(* Bounds of the model *)

\* Largest number of claims in a credential subject / value table.
MaxClaims == 2

\* Largest number of required tags missing from an enumerated record.
MaxMissing == 2

----------------------------------------------------------------------------
(* JavaScript values *)

Undefined == [kind |-> "undefined", repr |-> ""]

Null == [kind |-> "null", repr |-> ""]

True == [kind |-> "boolean", repr |-> "true"]

Str(s) == [kind |-> "string", repr |-> s]

Num(s) == [kind |-> "number", repr |-> s]

\* !v is false: v is none of undefined, null, '', false, 0.
Truthy(v) ==
  /\ v.kind \notin {"undefined", "null"}
  /\ ~(v.kind = "string" /\ v.repr = "")
  /\ ~(v.kind = "boolean" /\ v.repr = "false")
  /\ ~(v.kind = "number" /\ v.repr = "0")

\* v ?? d
Coalesce(v, d) == IF v.kind \in {"undefined", "null"} THEN d ELSE v

\* obj[k] of an object: undefined when the key is absent.
Get(obj, k) == IF k \in DOMAIN obj THEN obj[k] ELSE Undefined

EmptyObject == [k \in {} |-> Undefined]

Ok(v) == [status |-> "ok", value |-> v]

Throw(e) == [status |-> "throw", error |-> e]

\* s.startsWith(p)
StartsWith(s, p) == Len(s) >= Len(p) /\ SubSeq(s, 1, Len(p)) = p

\* s.indexOf(c, i) for a one-character c, 1-based; 0 when there is none.
RECURSIVE IndexOfFrom(_, _, _)
IndexOfFrom(s, c, i) ==
  IF i > Len(s) THEN 0
  ELSE IF SubSeq(s, i, i) = c THEN i
  ELSE IndexOfFrom(s, c, i + 1)

RECURSIVE CountFrom(_, _, _)
CountFrom(s, c, i) ==
  IF i > Len(s) THEN 0
  ELSE (IF SubSeq(s, i, i) = c THEN 1 ELSE 0) + CountFrom(s, c, i + 1)

----------------------------------------------------------------------------
(* Errors *)

SubjectArrayError == "Credential subject must be an object, not an array."

TagsNotFoundError == "AnonCreds tags not found on credential record."

MetadataNotFoundError == "AnonCreds metadata not found on credential record."

\* Reading .raw of an undefined value-table entry.
TypeError == "TypeError: Cannot read properties of undefined (reading 'raw')"

InvalidIdentifier == "InvalidIdentifier"

----------------------------------------------------------------------------
(* Identifier Qualifier (indyIdentifiers): qualified identifiers are       *)
(* <scheme>:<method>:<namespace>:<specific-id>, unqualified ones carry no  *)
(* method/namespace prefix and exist only under the indy method.           *)

DidIndyPrefix == "did:indy:"

isIndyDid(identifier) == StartsWith(identifier, DidIndyPrefix)

IsQualifiedId(identifier) ==
  StartsWith(identifier, "did:") /\ CountFrom(identifier, ":", 1) >= 3

IsUnqualifiedId(identifier) ==
  identifier # "" /\ ~StartsWith(identifier, "did:")

isUnqualifiedCredentialDefinitionId(identifier) == IsUnqualifiedId(identifier)

isUnqualifiedRevocationRegistryId(identifier) == IsUnqualifiedId(identifier)

\* qualify(id, namespace): inserts the method and namespace; a qualified
\* identifier is returned unchanged; neither shape is InvalidIdentifier.
getQualifiedDidIndyDid(identifier, namespace) ==
  IF IsQualifiedId(identifier) THEN Ok(identifier)
  ELSE IF IsUnqualifiedId(identifier)
       THEN Ok(DidIndyPrefix \o namespace \o ":" \o identifier)
       ELSE Throw(InvalidIdentifier)

\* unqualify(id): drops the method and namespace segments of a did:indy
\* identifier; a legacy identifier is already unqualified; an identifier
\* of another method has no legacy form and is an error.
getUnQualifiedDidIndyDid(identifier) ==
  IF ~StartsWith(identifier, "did:") THEN Ok(identifier)
  ELSE IF isIndyDid(identifier)
       THEN LET j == IndexOfFrom(identifier, ":", Len(DidIndyPrefix) + 1)
            IN  IF j = 0 \/ j = Len(identifier)
                THEN Throw(InvalidIdentifier)
                ELSE Ok(SubSeq(identifier, j + 1, Len(identifier)))
       ELSE Throw(InvalidIdentifier)

isUnqualifiedDidIndySchema(schema) == IsUnqualifiedId(schema.issuerId)

getQualifiedDidIndySchema(schema, namespace) ==
  [schema EXCEPT !.issuerId = getQualifiedDidIndyDid(@, namespace).value]

isUnqualifiedDidIndyCredentialDefinition(credentialDefinition) ==
  /\ IsUnqualifiedId(credentialDefinition.issuerId)
  /\ IsUnqualifiedId(credentialDefinition.schemaId)

getQualifiedDidIndyCredentialDefinition(credentialDefinition, namespace) ==
  [credentialDefinition EXCEPT
     !.issuerId = getQualifiedDidIndyDid(@, namespace).value,
     !.schemaId = getQualifiedDidIndyDid(@, namespace).value]

isUnqualifiedDidIndyRevocationRegistryDefinition(definition) ==
  /\ IsUnqualifiedId(definition.issuerId)
  /\ IsUnqualifiedId(definition.credDefId)

getQualifiedDidIndyRevocationRegistryDefinition(definition, namespace) ==
  [definition EXCEPT
     !.issuerId = getQualifiedDidIndyDid(@, namespace).value,
     !.credDefId = getQualifiedDidIndyDid(@, namespace).value]

----------------------------------------------------------------------------
(* Tag keys *)

RequiredTagKeys ==
  { "anonCredsLinkSecretId", "anonCredsMethodName", "anonCredsSchemaId",
    "anonCredsSchemaName", "anonCredsSchemaVersion",
    "anonCredsSchemaIssuerId", "anonCredsCredentialDefinitionId" }

RevocationTagKeys ==
  { "anonCredsRevocationRegistryId", "anonCredsCredentialRevocationId" }

UnqualifiedTagKeys ==
  { "anonCredsUnqualifiedIssuerId", "anonCredsUnqualifiedSchemaId",
    "anonCredsUnqualifiedSchemaIssuerId",
    "anonCredsUnqualifiedCredentialDefinitionId",
    "anonCredsUnqualifiedRevocationRegistryId" }

AttrValueKey(name) == "anonCredsAttr::" \o name \o "::value"

AttrMarkerKey(name) == "anonCredsAttr::" \o name \o "::marker"

----------------------------------------------------------------------------
(* Credential subject *)

\* Array.isArray(credentialSubject)
IsArray(credentialSubject) == credentialSubject.kind = "array"

\* (credentialSubject.claims as AnonCredsClaimRecord) ?? {}
ClaimsOf(credentialSubject) ==
  IF credentialSubject.hasClaims THEN credentialSubject.claims
  ELSE EmptyObject

\* The raw-value encoding shared with issuance: raw is value.toString().
\* The encoded commitment is not read by this module and is left out.
mapAttributeRawValuesToAnonCredsCredentialValues(claims) ==
  [name \in DOMAIN claims |-> [raw |-> claims[name].repr]]

----------------------------------------------------------------------------
(* Tag Deriver: getW3cRecordAnonCredsTags *)

\* The result of the first call that throws, in evaluation order.
FirstThrow(results) ==
  LET bad == {i \in DOMAIN results : results[i].status = "throw"}
  IN  results[CHOOSE i \in bad : \A j \in bad : i <= j]

AnyThrow(results) == \E i \in DOMAIN results : results[i].status = "throw"

\* The fixed keys of the object literal.
StructuralTags(options) ==
  ("anonCredsLinkSecretId" :> Str(options.linkSecretId)) @@
  ("anonCredsCredentialDefinitionId" :> Str(options.credentialDefinitionId)) @@
  ("anonCredsSchemaId" :> Str(options.schemaId)) @@
  ("anonCredsSchemaName" :> Str(options.schema.name)) @@
  ("anonCredsSchemaIssuerId" :> Str(options.schema.issuerId)) @@
  ("anonCredsSchemaVersion" :> Str(options.schema.version)) @@
  ("anonCredsMethodName" :> Str(options.methodName)) @@
  ("anonCredsRevocationRegistryId" :> options.revocationRegistryId) @@
  ("anonCredsCredentialRevocationId" :> options.credentialRevocationId)

\* The object literal of the unqualified mirror: every identifier goes
\* through getUnQualifiedDidIndyDid, and a call that throws ends the
\* derivation.
UnqualifiedMirror(options) ==
  LET issuerId == options.w3cCredentialRecord.credential.issuerId
      revocationRegistryId == options.revocationRegistryId
      calls ==
        << getUnQualifiedDidIndyDid(issuerId),
           getUnQualifiedDidIndyDid(options.credentialDefinitionId),
           getUnQualifiedDidIndyDid(options.schemaId),
           getUnQualifiedDidIndyDid(options.schema.issuerId),
           IF Truthy(revocationRegistryId)
           THEN getUnQualifiedDidIndyDid(revocationRegistryId.repr)
           ELSE Ok("") >>
  IN  IF AnyThrow(calls) THEN FirstThrow(calls)
      ELSE Ok(
        ("anonCredsUnqualifiedIssuerId" :> Str(calls[1].value)) @@
        ("anonCredsUnqualifiedCredentialDefinitionId" :> Str(calls[2].value)) @@
        ("anonCredsUnqualifiedSchemaId" :> Str(calls[3].value)) @@
        ("anonCredsUnqualifiedSchemaIssuerId" :> Str(calls[4].value)) @@
        ("anonCredsUnqualifiedRevocationRegistryId" :>
           IF Truthy(revocationRegistryId) THEN Str(calls[5].value)
           ELSE Undefined))

\* Mutation: the mirror is gated on the credential definition id.
MirrorTagsGatedOnCredentialDefinition(options) ==
  IF isIndyDid(options.credentialDefinitionId) THEN UnqualifiedMirror(options)
  ELSE Ok(EmptyObject)

\* ...(isIndyDid(issuerId) && { anonCredsUnqualified...: ... })
MirrorTags(options) ==
  IF isIndyDid(options.w3cCredentialRecord.credential.issuerId)
  THEN UnqualifiedMirror(options)
  ELSE Ok(EmptyObject)

\* Mutation: the marker entry of each attribute is not written.
AttrTagsWithoutMarker(values) ==
  [k \in {AttrValueKey(name) : name \in DOMAIN values} |->
     Str(values[CHOOSE name \in DOMAIN values : k = AttrValueKey(name)].raw)]

\* for (const [key, value] of Object.entries(values)) { ...value, ...marker }
AttrTags(values) ==
  [k \in {AttrValueKey(name) : name \in DOMAIN values}
         \cup {AttrMarkerKey(name) : name \in DOMAIN values} |->
     IF \E name \in DOMAIN values : k = AttrValueKey(name)
     THEN Str(values[CHOOSE name \in DOMAIN values : k = AttrValueKey(name)].raw)
     ELSE True]

getW3cRecordAnonCredsTags(options) ==
  LET mirror == MirrorTags(options)
      credentialSubject ==
        options.w3cCredentialRecord.credential.credentialSubject
  IN  IF mirror.status = "throw" THEN mirror
      ELSE IF IsArray(credentialSubject) THEN Throw(SubjectArrayError)
      ELSE Ok(AttrTags(mapAttributeRawValuesToAnonCredsCredentialValues(
                         ClaimsOf(credentialSubject)))
              @@ StructuralTags(options) @@ mirror.value)

----------------------------------------------------------------------------
(* Tag Extractor: getAnonCredsTagsFromRecord *)

\* record.metadata.get(W3cAnonCredsCredentialMetadataKey)
MetadataGet(record) == record.metadata

\* Mutation: the tags are returned without the prefix filter.
getAnonCredsTagsFromRecordUnfiltered(record) ==
  IF MetadataGet(record) = Undefined THEN Undefined
  ELSE IF \E k \in RequiredTagKeys : ~Truthy(Get(record.tags, k)) THEN Undefined
  ELSE record.tags

\* Mutation: the optional revocation registry tag is required as well.
getAnonCredsTagsFromRecordRequiringRegistry(record) ==
  IF MetadataGet(record) = Undefined THEN Undefined
  ELSE IF \E k \in RequiredTagKeys \cup {"anonCredsRevocationRegistryId"} :
            ~Truthy(Get(record.tags, k))
       THEN Undefined
  ELSE [k \in {key \in DOMAIN record.tags : StartsWith(key, "anonCreds")} |->
          record.tags[k]]

\* The anonCreds-prefixed entries of the record's tags, or undefined.
getAnonCredsTagsFromRecord(record) ==
  LET anoncredsMetadata == MetadataGet(record)
      tags == record.tags
  IN  IF anoncredsMetadata = Undefined THEN Undefined
      ELSE IF \E k \in RequiredTagKeys : ~Truthy(Get(tags, k)) THEN Undefined
      ELSE [k \in {key \in DOMAIN tags : StartsWith(key, "anonCreds")} |->
              tags[k]]

----------------------------------------------------------------------------
(* Credential Info Projector *)

anoncredsCredentialInfoFromW3cRecord(w3cCredentialRecord) ==
  LET credentialSubject == w3cCredentialRecord.credential.credentialSubject
      anonCredsTags == getAnonCredsTagsFromRecord(w3cCredentialRecord)
      anoncredsCredentialMetadata == MetadataGet(w3cCredentialRecord)
  IN  IF IsArray(credentialSubject) THEN Throw(SubjectArrayError)
      ELSE IF anonCredsTags = Undefined THEN Throw(TagsNotFoundError)
      ELSE IF anoncredsCredentialMetadata = Undefined
           THEN Throw(MetadataNotFoundError)
      ELSE Ok([
        attributes |-> ClaimsOf(credentialSubject),
        credentialId |-> Str(anoncredsCredentialMetadata.credentialId),
        credentialDefinitionId |->
          Get(anonCredsTags, "anonCredsCredentialDefinitionId"),
        schemaId |-> Get(anonCredsTags, "anonCredsSchemaId"),
        credentialRevocationId |->
          Coalesce(anoncredsCredentialMetadata.credentialRevocationId, Null),
        revocationRegistryId |->
          Coalesce(Get(anonCredsTags, "anonCredsRevocationRegistryId"), Null),
        methodName |-> Str(anoncredsCredentialMetadata.methodName),
        linkSecretId |-> Str(anoncredsCredentialMetadata.linkSecretId) ])

\* for (const attribute in record.credential)
\*   attributes[attribute] = record.credential.values[attribute].raw
anoncredsCredentialInfoFromAnoncredsRecord(anonCredsCredentialRecord) ==
  LET credential == anonCredsCredentialRecord.credential
      values == credential["values"]
  IN  IF \E attribute \in DOMAIN credential : attribute \notin DOMAIN values
      THEN Throw(TypeError)
      ELSE Ok([
        attributes |->
          [attribute \in DOMAIN credential |-> Str(values[attribute].raw)],
        credentialDefinitionId |-> credential["cred_def_id"],
        credentialId |-> Str(anonCredsCredentialRecord.credentialId),
        schemaId |-> credential["schema_id"],
        credentialRevocationId |->
          Coalesce(anonCredsCredentialRecord.credentialRevocationId, Null),
        revocationRegistryId |-> Coalesce(Get(credential, "rev_reg_id"), Null),
        methodName |-> Str(anonCredsCredentialRecord.methodName),
        linkSecretId |-> Str(anonCredsCredentialRecord.linkSecretId) ])

\* credentialRecord instanceof W3cCredentialRecord
IsW3cCredentialRecord(credentialRecord) ==
  credentialRecord.type = "W3cCredentialRecord"

getAnoncredsCredentialInfoFromRecord(credentialRecord) ==
  IF IsW3cCredentialRecord(credentialRecord)
  THEN anoncredsCredentialInfoFromW3cRecord(credentialRecord)
  ELSE anoncredsCredentialInfoFromAnoncredsRecord(credentialRecord)

----------------------------------------------------------------------------
(* Store-time normalisation: getStoreCredentialOptions.  uuid is the value *)
(* utils.uuid() returns in this call.                                      *)

\* Mutation: the revocation registry id is passed through unqualified.
RevocationRegistryWithIdUnchanged(revocationRegistry, indyNamespace) ==
  IF revocationRegistry = Undefined THEN Undefined
  ELSE IF revocationRegistry.definition = Undefined THEN Undefined
  ELSE [ definition |->
           IF isUnqualifiedDidIndyRevocationRegistryDefinition(
                revocationRegistry.definition)
           THEN getQualifiedDidIndyRevocationRegistryDefinition(
                  revocationRegistry.definition, indyNamespace)
           ELSE revocationRegistry.definition,
         id |-> revocationRegistry.id ]

\* revocationRegistry?.definition ? { definition, id } : undefined
QualifiedRevocationRegistry(revocationRegistry, indyNamespace) ==
  IF revocationRegistry = Undefined THEN Undefined
  ELSE IF revocationRegistry.definition = Undefined THEN Undefined
  ELSE [ definition |->
           IF isUnqualifiedDidIndyRevocationRegistryDefinition(
                revocationRegistry.definition)
           THEN getQualifiedDidIndyRevocationRegistryDefinition(
                  revocationRegistry.definition, indyNamespace)
           ELSE revocationRegistry.definition,
         id |->
           IF isUnqualifiedRevocationRegistryId(revocationRegistry.id)
           THEN getQualifiedDidIndyDid(revocationRegistry.id,
                                       indyNamespace).value
           ELSE revocationRegistry.id ]

getStoreCredentialOptions(options, indyNamespace, uuid) ==
  [ credentialId |-> Str(uuid),
    credentialRequestMetadata |-> options.credentialRequestMetadata,
    credential |-> options.credential,
    credentialDefinitionId |->
      IF isUnqualifiedCredentialDefinitionId(options.credentialDefinitionId)
      THEN getQualifiedDidIndyDid(options.credentialDefinitionId,
                                  indyNamespace).value
      ELSE options.credentialDefinitionId,
    credentialDefinition |->
      IF isUnqualifiedDidIndyCredentialDefinition(options.credentialDefinition)
      THEN getQualifiedDidIndyCredentialDefinition(
             options.credentialDefinition, indyNamespace)
      ELSE options.credentialDefinition,
    schema |->
      IF isUnqualifiedDidIndySchema(options.schema)
      THEN getQualifiedDidIndySchema(options.schema, indyNamespace)
      ELSE options.schema,
    revocationRegistry |->
      QualifiedRevocationRegistry(options.revocationRegistry, indyNamespace) ]

----------------------------------------------------------------------------
(* Inputs *)

IndyDid == "did:indy:sovrin:7Tqg6BwSSWapxgUDm9KKgg"

WebDid == "did:web:example.com:issuer"

LegacyDid == "7Tqg6BwSSWapxgUDm9KKgg"

SchemaSuffix == "/anoncreds/v0/SCHEMA/degree/1.0"

CredDefSuffix == "/anoncreds/v0/CLAIM_DEF/12/tag"

RevRegSuffix == "/anoncreds/v0/REV_REG_DEF/12/tag/reg"

Namespaces == {"sovrin", "bcovrin"}

Uuids == {"uuid-1", "uuid-2"}

AttrNames == {"name", "age", "degree"}

ClaimValues == {Str("Alice"), Num("42")}

\* Claim records with at most MaxClaims claims.
ClaimRecords ==
  UNION { [names -> ClaimValues] :
            names \in {n \in SUBSET AttrNames : Cardinality(n) <= MaxClaims} }

ObjectSubject(claims) == [kind |-> "object", hasClaims |-> TRUE, claims |-> claims]

SubjectWithoutClaims ==
  [kind |-> "object", hasClaims |-> FALSE, claims |-> EmptyObject]

ArraySubject ==
  [kind |-> "array",
   items |-> << ObjectSubject("name" :> Str("Alice")),
                ObjectSubject("name" :> Str("Bob")) >>]

Subjects ==
  {ObjectSubject(c) : c \in ClaimRecords} \cup {SubjectWithoutClaims, ArraySubject}

W3cRecord(issuerId, credentialSubject, metadata, tags) ==
  [ type |-> "W3cCredentialRecord",
    credential |-> [issuerId |-> issuerId, credentialSubject |-> credentialSubject],
    metadata |-> metadata,
    tags |-> tags ]

\* The options of getW3cRecordAnonCredsTags; the record is not yet tagged.
DeriveOptions ==
  { [ w3cCredentialRecord |-> W3cRecord(issuerId, subject, Undefined, EmptyObject),
      schemaId |-> schemaDid \o SchemaSuffix,
      schema |-> [name |-> "degree", issuerId |-> schemaDid, version |-> "1.0"],
      credentialDefinitionId |-> credDefDid \o CredDefSuffix,
      revocationRegistryId |-> revocationRegistryId,
      credentialRevocationId |-> credentialRevocationId,
      linkSecretId |-> linkSecretId,
      methodName |-> "indy" ] :
      issuerId \in {IndyDid, WebDid, LegacyDid},
      subject \in Subjects,
      schemaDid \in {IndyDid, WebDid},
      credDefDid \in {IndyDid, WebDid},
      revocationRegistryId \in
        {Undefined, Str(IndyDid \o RevRegSuffix), Str(WebDid \o RevRegSuffix)},
      credentialRevocationId \in {Undefined, Str("7")},
      linkSecretId \in {"linkSecret1", ""} }

Metadata(credentialRevocationId, linkSecretId, methodName) ==
  [ credentialId |-> "cred-1",
    credentialRevocationId |-> credentialRevocationId,
    linkSecretId |-> linkSecretId,
    methodName |-> methodName ]

\* The tags a stored record may carry besides the required ones: optional
\* anonCreds tags and tags of other indexing concerns.
OtherTags ==
  ("anonCredsRevocationRegistryId" :> Str(IndyDid \o RevRegSuffix)) @@
  (AttrValueKey("name") :> Str("Alice")) @@
  (AttrMarkerKey("name") :> True) @@
  ("issuerId" :> Str(IndyDid)) @@
  ("claimFormat" :> Str("ldp_vc"))

RequiredTags(linkSecretId) ==
  ("anonCredsLinkSecretId" :> Str(linkSecretId)) @@
  ("anonCredsMethodName" :> Str("indy")) @@
  ("anonCredsSchemaId" :> Str(IndyDid \o SchemaSuffix)) @@
  ("anonCredsSchemaName" :> Str("degree")) @@
  ("anonCredsSchemaVersion" :> Str("1.0")) @@
  ("anonCredsSchemaIssuerId" :> Str(IndyDid)) @@
  ("anonCredsCredentialDefinitionId" :> Str(IndyDid \o CredDefSuffix))

Restrict(f, keys) == [k \in keys |-> f[k]]

\* Tag mappings with at most MaxMissing required keys missing.
TagMappings ==
  { Restrict(RequiredTags(linkSecretId) @@ OtherTags, present \cup other) :
      linkSecretId \in {"linkSecret1", ""},
      present \in {r \in SUBSET RequiredTagKeys :
                     Cardinality(RequiredTagKeys \ r) <= MaxMissing},
      other \in SUBSET DOMAIN OtherTags }

W3cRecords ==
  { W3cRecord(IndyDid, subject, metadata, tags) :
      subject \in {ObjectSubject("name" :> Str("Alice")), ArraySubject},
      metadata \in {Undefined, Metadata(Str("7"), "linkSecret1", "indy")},
      tags \in TagMappings }

\* Field names of the native credential payload.
PayloadKeys ==
  {"schema_id", "cred_def_id", "rev_reg_id", "values", "signature",
   "signature_correctness_proof"}

RawOf(name) ==
  CASE name = "name" -> "Alice"
    [] name = "age" -> "42"
    [] OTHER -> "x"

ValueTable(names) == [name \in names |-> [raw |-> RawOf(name)]]

NativeCredential(names, revocationRegistryId) ==
  ("schema_id" :> Str(IndyDid \o SchemaSuffix)) @@
  ("cred_def_id" :> Str(IndyDid \o CredDefSuffix)) @@
  ("values" :> ValueTable(names)) @@
  ("signature" :> Str("signature")) @@
  ("signature_correctness_proof" :> Str("proof")) @@
  (IF revocationRegistryId = Undefined THEN EmptyObject
   ELSE "rev_reg_id" :> revocationRegistryId)

NativeRecord(names, revocationRegistryId, credentialRevocationId) ==
  [ type |-> "AnonCredsCredentialRecord",
    credential |-> NativeCredential(names, revocationRegistryId),
    credentialId |-> "cred-2",
    credentialRevocationId |-> credentialRevocationId,
    methodName |-> "indy",
    linkSecretId |-> "linkSecret1" ]

ClaimNameSets == {n \in SUBSET AttrNames : Cardinality(n) <= MaxClaims}

\* Native records; an attribute may be named like a field of the payload.
NativeRecords ==
  { NativeRecord(names \cup shadow, revocationRegistryId, credentialRevocationId) :
      names \in ClaimNameSets,
      shadow \in SUBSET PayloadKeys,
      revocationRegistryId \in {Undefined, Str(IndyDid \o RevRegSuffix)},
      credentialRevocationId \in {Undefined, Str("7")} }

\* The W3C record holding the same data as a native record: the same
\* claims in its subject, the tags derived for the same identifiers and the
\* metadata entry of the same holder.
EquivalentW3cRecord(names, revocationRegistryId, credentialRevocationId) ==
  LET subject == ObjectSubject([name \in names |-> Str(RawOf(name))])
      options ==
        [ w3cCredentialRecord |-> W3cRecord(IndyDid, subject, Undefined, EmptyObject),
          schemaId |-> IndyDid \o SchemaSuffix,
          schema |-> [name |-> "degree", issuerId |-> IndyDid, version |-> "1.0"],
          credentialDefinitionId |-> IndyDid \o CredDefSuffix,
          revocationRegistryId |-> revocationRegistryId,
          credentialRevocationId |-> credentialRevocationId,
          linkSecretId |-> "linkSecret1",
          methodName |-> "indy" ]
  IN  W3cRecord(IndyDid, subject,
                Metadata(credentialRevocationId, "linkSecret1", "indy"),
                getW3cRecordAnonCredsTags(options).value)

\* Legacy identifiers of a schema, a credential definition and a
\* revocation registry.
LegacySchemaId == LegacyDid \o ":2:degree:1.0"

LegacyCredDefId == LegacyDid \o ":3:CL:12:tag"

LegacyRevRegId == LegacyDid \o ":4:" \o LegacyCredDefId \o ":CL_ACCUM:reg"

StoreOptions ==
  { [ credentialRequestMetadata |-> Str("requestMetadata"),
      credential |-> Str("credential"),
      credentialDefinitionId |-> credentialDefinitionId,
      credentialDefinition |->
        [issuerId |-> credDefIssuer, schemaId |-> credDefSchema,
         type |-> "CL", tag |-> "tag"],
      schema |->
        [issuerId |-> schemaIssuer, name |-> "degree", version |-> "1.0",
         attrNames |-> <<"name", "age">>],
      revocationRegistry |-> revocationRegistry ] :
      credentialDefinitionId \in
        {LegacyCredDefId, IndyDid \o CredDefSuffix, WebDid \o CredDefSuffix},
      credDefIssuer \in {LegacyDid, IndyDid},
      credDefSchema \in {LegacySchemaId, IndyDid \o SchemaSuffix},
      schemaIssuer \in {LegacyDid, IndyDid, WebDid},
      revocationRegistry \in
        {Undefined} \cup
        { [id |-> id,
           definition |->
             [issuerId |-> defIssuer, credDefId |-> defCredDef,
              revocDefType |-> "CL_ACCUM", tag |-> "reg"]] :
            id \in {LegacyRevRegId, IndyDid \o RevRegSuffix,
                    WebDid \o RevRegSuffix},
            defIssuer \in {LegacyDid, IndyDid},
            defCredDef \in {LegacyCredDefId, IndyDid \o CredDefSuffix} } }

\* The tags every W3C record carries besides the ones set on it.
DefaultTags(issuerId) ==
  ("issuerId" :> Str(issuerId)) @@ ("claimFormat" :> Str("ldp_vc"))

----------------------------------------------------------------------------
(* State machine: each action is one call; op, args and ret record the     *)
(* call, its arguments and its outcome.  A behaviour makes one call on a   *)
(* fresh input; after a successful tag derivation the tagged record may be *)
(* stored and then read back.  stored is that record and the options its   *)
(* tags were derived from.                                                 *)

NoRecord == [type |-> "none"]

Init ==
  /\ op = "init"
  /\ args = <<>>
  /\ ret = <<>>
  /\ stored = [record |-> NoRecord, from |-> <<>>]

DeriveTags ==
  /\ op = "init"
  /\ \E options \in DeriveOptions :
       /\ op' = "getW3cRecordAnonCredsTags"
       /\ args' = options
       /\ ret' = getW3cRecordAnonCredsTags(options)
       /\ stored' = [record |-> NoRecord, from |-> <<>>]

ExtractTags ==
  /\ op = "init"
  /\ \E record \in W3cRecords :
       /\ op' = "getAnonCredsTagsFromRecord"
       /\ args' = record
       /\ ret' = getAnonCredsTagsFromRecord(record)
       /\ stored' = [record |-> NoRecord, from |-> <<>>]

ProjectW3cRecord ==
  /\ op = "init"
  /\ \E record \in W3cRecords :
       /\ op' = "getAnoncredsCredentialInfoFromRecord"
       /\ args' = record
       /\ ret' = getAnoncredsCredentialInfoFromRecord(record)
       /\ stored' = [record |-> NoRecord, from |-> <<>>]

ProjectNativeRecord ==
  /\ op = "init"
  /\ \E record \in NativeRecords :
       /\ op' = "getAnoncredsCredentialInfoFromRecord"
       /\ args' = record
       /\ ret' = getAnoncredsCredentialInfoFromRecord(record)
       /\ stored' = [record |-> NoRecord, from |-> <<>>]

\* The same data projected from both stored representations.
ProjectBoth ==
  /\ op = "init"
  /\ \E names \in ClaimNameSets,
        revocationRegistryId \in {Undefined, Str(IndyDid \o RevRegSuffix)},
        credentialRevocationId \in {Undefined, Str("7")} :
       LET native == NativeRecord(names, revocationRegistryId,
                                  credentialRevocationId)
           w3c == EquivalentW3cRecord(names, revocationRegistryId,
                                      credentialRevocationId)
       IN  /\ op' = "projectBoth"
           /\ args' = [native |-> native, w3c |-> w3c]
           /\ ret' = [native |-> getAnoncredsCredentialInfoFromRecord(native),
                      w3c |-> getAnoncredsCredentialInfoFromRecord(w3c)]
           /\ stored' = [record |-> NoRecord, from |-> <<>>]

NormalizeStoreOptions ==
  /\ op = "init"
  /\ \E options \in StoreOptions, indyNamespace \in Namespaces, uuid \in Uuids :
       /\ op' = "getStoreCredentialOptions"
       /\ args' = [options |-> options, indyNamespace |-> indyNamespace]
       /\ ret' = getStoreCredentialOptions(options, indyNamespace, uuid)
       /\ stored' = [record |-> NoRecord, from |-> <<>>]

\* The caller stores the record with the derived tags and the metadata
\* entry.  The record read back carries the tags as they were set, or,
\* after a round through the storage, without the entries whose value is
\* undefined.
StoreRecord ==
  /\ op = "getW3cRecordAnonCredsTags"
  /\ ret.status = "ok"
  /\ stored.record = NoRecord
  /\ \E serialized \in BOOLEAN :
       LET credential == args.w3cCredentialRecord.credential
           tags == DefaultTags(credential.issuerId) @@ ret.value
           kept == IF serialized
                   THEN {k \in DOMAIN tags : tags[k] # Undefined}
                   ELSE DOMAIN tags
       IN  stored' =
             [ record |->
                 W3cRecord(credential.issuerId, credential.credentialSubject,
                           Metadata(args.credentialRevocationId,
                                    args.linkSecretId, args.methodName),
                           Restrict(tags, kept)),
               from |-> args ]
  /\ op' = "storeRecord"
  /\ UNCHANGED <<args, ret>>

ExtractStoredTags ==
  /\ op = "storeRecord"
  /\ op' = "getAnonCredsTagsFromRecord"
  /\ args' = stored.record
  /\ ret' = getAnonCredsTagsFromRecord(stored.record)
  /\ UNCHANGED stored

ProjectStoredRecord ==
  /\ op = "storeRecord"
  /\ op' = "getAnoncredsCredentialInfoFromRecord"
  /\ args' = stored.record
  /\ ret' = getAnoncredsCredentialInfoFromRecord(stored.record)
  /\ UNCHANGED stored

Next ==
  \/ DeriveTags
  \/ ExtractTags
  \/ ProjectW3cRecord
  \/ ProjectNativeRecord
  \/ ProjectBoth
  \/ NormalizeStoreOptions
  \/ StoreRecord
  \/ ExtractStoredTags
  \/ ProjectStoredRecord

Spec == Init /\ [][Next]_vars

----------------------------------------------------------------------------
(* Properties *)

Derived == op = "getW3cRecordAnonCredsTags"

DerivedSubject == args.w3cCredentialRecord.credential.credentialSubject

DerivedIssuerId == args.w3cCredentialRecord.credential.issuerId

Extracted == op = "getAnonCredsTagsFromRecord"

ProjectedW3c ==
  op = "getAnoncredsCredentialInfoFromRecord" /\ args.type = "W3cCredentialRecord"

ProjectedNative ==
  op = "getAnoncredsCredentialInfoFromRecord"
    /\ args.type = "AnonCredsCredentialRecord"

DynamicKeys(claims) ==
  {AttrValueKey(name) : name \in DOMAIN claims}
    \cup {AttrMarkerKey(name) : name \in DOMAIN claims}

\* C1 as stated: the tag mapping derived for a single-object subject has
\* exactly the seven required keys, one value/marker pair per claim, the
\* optional mirror keys, and the two revocation keys only when a revocation
\* registry id was supplied (absent otherwise, not present with undefined).
C1_RevocationKeysAbsentWithoutRegistry ==
  (Derived /\ ret.status = "ok") =>
    (DOMAIN ret.value) \ UnqualifiedTagKeys =
      RequiredTagKeys \cup DynamicKeys(ClaimsOf(DerivedSubject))
        \cup (IF args.revocationRegistryId # Undefined
              THEN RevocationTagKeys ELSE {})

\* C1 amended: the tag mapping derived for a single-object subject has
\* exactly the seven required keys with the values of the options, one
\* value/marker pair per claim (raw value, true), the optional mirror keys,
\* and always both revocation keys, each carrying the supplied option or
\* the value undefined when it was not supplied.
C1_TagKeySet ==
  (Derived /\ ret.status = "ok") =>
    LET tags == ret.value
        claims == ClaimsOf(DerivedSubject)
    IN  /\ (DOMAIN tags) \ UnqualifiedTagKeys =
             RequiredTagKeys \cup DynamicKeys(claims) \cup RevocationTagKeys
        /\ tags["anonCredsLinkSecretId"] = Str(args.linkSecretId)
        /\ tags["anonCredsMethodName"] = Str(args.methodName)
        /\ tags["anonCredsSchemaId"] = Str(args.schemaId)
        /\ tags["anonCredsSchemaName"] = Str(args.schema.name)
        /\ tags["anonCredsSchemaVersion"] = Str(args.schema.version)
        /\ tags["anonCredsSchemaIssuerId"] = Str(args.schema.issuerId)
        /\ tags["anonCredsCredentialDefinitionId"] =
             Str(args.credentialDefinitionId)
        /\ tags["anonCredsRevocationRegistryId"] = args.revocationRegistryId
        /\ tags["anonCredsCredentialRevocationId"] = args.credentialRevocationId
        /\ \A name \in DOMAIN claims :
             /\ tags[AttrValueKey(name)] = Str(claims[name].repr)
             /\ tags[AttrMarkerKey(name)] = True

\* Tags derived for two claims, one of them a number, with no revocation
\* registry: both revocation keys are present with the value undefined.
C1_Witness ==
  /\ Derived /\ ret.status = "ok"
  /\ DerivedSubject.hasClaims
  /\ DOMAIN DerivedSubject.claims = {"name", "age"}
  /\ DerivedSubject.claims["age"] = Num("42")
  /\ args.revocationRegistryId = Undefined
  /\ RevocationTagKeys \subseteq DOMAIN ret.value
  /\ ret.value["anonCredsRevocationRegistryId"] = Undefined
  /\ ret.value[AttrValueKey("age")] = Str("42")

\* C2: the unqualified mirror keys are in the derived mapping if and only
\* if the issuer id is a did:indy identifier; the gate reads the issuer id
\* alone, whatever the method of the other identifiers.
C2_MirrorIffIndyIssuer ==
  (Derived /\ ret.status = "ok") =>
    IF isIndyDid(DerivedIssuerId)
    THEN UnqualifiedTagKeys \subseteq DOMAIN ret.value
    ELSE UnqualifiedTagKeys \cap DOMAIN ret.value = {}

\* Tags derived for a non-indy issuer whose schema, credential definition
\* and revocation registry are did:indy identifiers: no mirror key.
C2_Witness ==
  /\ Derived /\ ret.status = "ok"
  /\ ~isIndyDid(DerivedIssuerId)
  /\ isIndyDid(args.credentialDefinitionId)
  /\ isIndyDid(args.schemaId)
  /\ Truthy(args.revocationRegistryId)
  /\ isIndyDid(args.revocationRegistryId.repr)
  /\ UnqualifiedTagKeys \cap DOMAIN ret.value = {}

\* C3: for a W3C record whose subject is an array, tag derivation and
\* projection both fail with the malformed-subject error, whatever the
\* other inputs are.
C3_ArraySubjectFails ==
  /\ (Derived /\ IsArray(DerivedSubject)) => ret = Throw(SubjectArrayError)
  /\ (ProjectedW3c /\ IsArray(args.credential.credentialSubject)) =>
       ret = Throw(SubjectArrayError)

\* C4: projecting a W3C record with a single-object subject reports missing
\* metadata as the metadata error and, when the metadata entry exists,
\* a missing required tag as the tags error.
C4_DistinctMissingErrors ==
  (ProjectedW3c /\ ~IsArray(args.credential.credentialSubject)) =>
    /\ args.metadata = Undefined => ret = Throw(MetadataNotFoundError)
    /\ (args.metadata # Undefined
          /\ \E k \in RequiredTagKeys : k \notin DOMAIN args.tags) =>
         ret = Throw(TagsNotFoundError)

\* C5: projecting a native record succeeds and returns an attribute for
\* exactly each name of the value table, holding that entry's raw value.
C5_NativeAttributes ==
  ProjectedNative =>
    LET values == args.credential["values"]
    IN  /\ ret.status = "ok"
        /\ DOMAIN ret.value.attributes = DOMAIN values
        /\ \A name \in DOMAIN values :
             ret.value.attributes[name] = Str(values[name].raw)

\* C6: a native record and a W3C record holding the same data project to
\* infos equal in every field except credentialId, with absent revocation
\* fields null in both.
C6_ProjectionEquivalence ==
  op = "projectBoth" =>
    /\ ret.native.status = "ok"
    /\ ret.w3c.status = "ok"
    /\ [ret.native.value EXCEPT !.credentialId = Null] =
         [ret.w3c.value EXCEPT !.credentialId = Null]

AnonCredsKeys(tags) == {k \in DOMAIN tags : StartsWith(k, "anonCreds")}

\* C7 as stated: extraction returns absent without a metadata entry, absent
\* when a required key is missing from the tags, and otherwise exactly the
\* anonCreds-prefixed tags with unchanged values.
C7_AbsentOnlyWhenKeyMissing ==
  Extracted =>
    /\ args.metadata = Undefined => ret = Undefined
    /\ (\E k \in RequiredTagKeys : k \notin DOMAIN args.tags) => ret = Undefined
    /\ (args.metadata # Undefined /\ RequiredTagKeys \subseteq DOMAIN args.tags) =>
         /\ ret # Undefined
         /\ DOMAIN ret = AnonCredsKeys(args.tags)
         /\ \A k \in DOMAIN ret : ret[k] = args.tags[k]

\* C7 amended: extraction returns absent without a metadata entry, absent
\* when a required key is missing from the tags or holds an empty (falsy)
\* value, and otherwise exactly the anonCreds-prefixed tags with unchanged
\* values and no tag of another namespace.
C7_ExtractTags ==
  Extracted =>
    /\ args.metadata = Undefined => ret = Undefined
    /\ (\E k \in RequiredTagKeys :
          k \notin DOMAIN args.tags \/ ~Truthy(args.tags[k])) => ret = Undefined
    /\ (args.metadata # Undefined
          /\ \A k \in RequiredTagKeys :
               k \in DOMAIN args.tags /\ Truthy(args.tags[k])) =>
         /\ ret # Undefined
         /\ DOMAIN ret = AnonCredsKeys(args.tags)
         /\ \A k \in DOMAIN ret : ret[k] = args.tags[k]
         /\ {"issuerId", "claimFormat"} \cap DOMAIN ret = {}

\* Extraction from a record that also carries tags of another namespace
\* and an optional anonCreds tag returns the mapping without the former.
C7_Witness ==
  /\ Extracted
  /\ ret # Undefined
  /\ {"issuerId", "claimFormat"} \subseteq DOMAIN args.tags
  /\ "anonCredsRevocationRegistryId" \in DOMAIN ret
  /\ AttrValueKey("name") \in DOMAIN ret
  /\ "issuerId" \notin DOMAIN ret

LegacyCapable(identifier) == getUnQualifiedDidIndyDid(identifier).status = "ok"

MirrorKeyEmittedIffCapable(key, identifier) ==
  key \in DOMAIN ret.value <=> LegacyCapable(identifier)

\* C8: with a did:indy issuer and a single-object subject, tag derivation
\* succeeds; the mirror key of an identifier that has no legacy form is
\* omitted and the mirror keys of the others are emitted.
C8_SilentSkip ==
  (Derived /\ ~IsArray(DerivedSubject) /\ isIndyDid(DerivedIssuerId)) =>
    /\ ret.status = "ok"
    /\ MirrorKeyEmittedIffCapable("anonCredsUnqualifiedCredentialDefinitionId",
                                  args.credentialDefinitionId)
    /\ MirrorKeyEmittedIffCapable("anonCredsUnqualifiedSchemaId", args.schemaId)
    /\ MirrorKeyEmittedIffCapable("anonCredsUnqualifiedSchemaIssuerId",
                                  args.schema.issuerId)
    /\ Truthy(args.revocationRegistryId) =>
         MirrorKeyEmittedIffCapable("anonCredsUnqualifiedRevocationRegistryId",
                                    args.revocationRegistryId.repr)

\* The identifier out is in normalised: unchanged when in is qualified,
\* and when in is unqualified the did:indy identifier of the namespace
\* whose legacy form is in.
NormalizedId(in, out, namespace) ==
  /\ IsQualifiedId(in) => out = in
  /\ IsUnqualifiedId(in) =>
       /\ StartsWith(out, DidIndyPrefix \o namespace \o ":")
       /\ IsQualifiedId(out) /\ ~IsUnqualifiedId(out)
       /\ getUnQualifiedDidIndyDid(out) = Ok(in)

\* C9: store-time normalisation returns every qualified identifier and
\* definition unchanged and every unqualified one in the qualified form for
\* the namespace, and normalising its own output again changes nothing
\* but the freshly generated credentialId.
C9_StoreOptionsIdempotent ==
  op = "getStoreCredentialOptions" =>
    LET in == args.options
        ns == args.indyNamespace
        inCredDef == in.credentialDefinition
        outCredDef == ret.credentialDefinition
    IN  /\ NormalizedId(in.credentialDefinitionId,
                        ret.credentialDefinitionId, ns)
        /\ isUnqualifiedDidIndyCredentialDefinition(inCredDef) =>
             /\ NormalizedId(inCredDef.issuerId, outCredDef.issuerId, ns)
             /\ NormalizedId(inCredDef.schemaId, outCredDef.schemaId, ns)
             /\ [outCredDef EXCEPT !.issuerId = inCredDef.issuerId,
                                   !.schemaId = inCredDef.schemaId] = inCredDef
        /\ (IsQualifiedId(inCredDef.issuerId)
              /\ IsQualifiedId(inCredDef.schemaId)) => outCredDef = inCredDef
        /\ NormalizedId(in.schema.issuerId, ret.schema.issuerId, ns)
        /\ [ret.schema EXCEPT !.issuerId = in.schema.issuerId] = in.schema
        /\ (in.revocationRegistry = Undefined) =
             (ret.revocationRegistry = Undefined)
        /\ in.revocationRegistry # Undefined =>
             LET inDef == in.revocationRegistry.definition
                 outDef == ret.revocationRegistry.definition
             IN  /\ NormalizedId(in.revocationRegistry.id,
                                 ret.revocationRegistry.id, ns)
                 /\ isUnqualifiedDidIndyRevocationRegistryDefinition(inDef) =>
                      /\ NormalizedId(inDef.issuerId, outDef.issuerId, ns)
                      /\ NormalizedId(inDef.credDefId, outDef.credDefId, ns)
                      /\ [outDef EXCEPT !.issuerId = inDef.issuerId,
                                        !.credDefId = inDef.credDefId] = inDef
                 /\ (IsQualifiedId(inDef.issuerId)
                       /\ IsQualifiedId(inDef.credDefId)) => outDef = inDef
        /\ \A uuid \in Uuids :
             [getStoreCredentialOptions(ret, ns, uuid)
                EXCEPT !.credentialId = ret.credentialId] = ret

\* Normalisation of options mixing an unqualified credential definition id
\* with an already qualified revocation registry id and an unqualified
\* revocation registry definition.
C9_Witness ==
  /\ op = "getStoreCredentialOptions"
  /\ args.indyNamespace = "bcovrin"
  /\ args.options.credentialDefinitionId = LegacyCredDefId
  /\ StartsWith(ret.credentialDefinitionId, "did:indy:bcovrin:")
  /\ args.options.revocationRegistry # Undefined
  /\ args.options.revocationRegistry.id = IndyDid \o RevRegSuffix
  /\ ret.revocationRegistry.id = IndyDid \o RevRegSuffix
  /\ args.options.revocationRegistry.definition.issuerId = LegacyDid
  /\ ret.revocationRegistry.definition.issuerId =
       "did:indy:bcovrin:7Tqg6BwSSWapxgUDm9KKgg"

RequiredValuesNonEmpty(options) ==
  /\ options.linkSecretId # ""
  /\ options.methodName # ""
  /\ options.schemaId # ""
  /\ options.schema.name # ""
  /\ options.schema.version # ""
  /\ options.schema.issuerId # ""
  /\ options.credentialDefinitionId # ""

\* C10: a W3C record stored with the tags derived from options whose seven
\* required values are non-empty, and with a metadata entry, is accepted by
\* tag extraction, and its projection succeeds with the schema id,
\* credential definition id and revocation registry id of the options
\* (null when none was given) and the subject's claims as attributes.
C10_StoreReadRoundTrip ==
  (stored.record # NoRecord /\ RequiredValuesNonEmpty(stored.from)) =>
    /\ Extracted => ret # Undefined
    /\ op = "getAnoncredsCredentialInfoFromRecord" =>
         /\ ret.status = "ok"
         /\ ret.value.schemaId = Str(stored.from.schemaId)
         /\ ret.value.credentialDefinitionId =
              Str(stored.from.credentialDefinitionId)
         /\ ret.value.revocationRegistryId =
              (IF stored.from.revocationRegistryId = Undefined THEN Null
               ELSE stored.from.revocationRegistryId)
         /\ ret.value.attributes =
              ClaimsOf(stored.from.w3cCredentialRecord.credential.credentialSubject)

\* A record stored without a revocation registry and with two claims is
\* read back: revocationRegistryId is null.
C10_Witness ==
  /\ stored.record # NoRecord
  /\ RequiredValuesNonEmpty(stored.from)
  /\ op = "getAnoncredsCredentialInfoFromRecord"
  /\ ret.status = "ok"
  /\ stored.from.revocationRegistryId = Undefined
  /\ ret.value.revocationRegistryId = Null
  /\ DOMAIN ret.value.attributes = {"name", "degree"}

====
